---- MODULE Spec2Model ----
(***************************************************************************)
(* Model of svn-util: the status parser and conflict reconciler            *)
(* (src/src/svn/mod.rs, src/src/svn/state.rs, src/src/svn/filelist.rs).    *)
(*                                                                         *)
(* A Rust &str is modelled as a sequence of one-character strings, one     *)
(* element per byte; all text of the model is ASCII, so byte indices and   *)
(* character indices agree.  A PathBuf is modelled by the string it was    *)
(* built from: PathBuf::from / from_str store the text unchanged and       *)
(* to_str returns it unchanged.                                            *)
(***************************************************************************)
EXTENDS Integers, Sequences, FiniteSets, TLC

VARIABLES
    text,   \* the &str argument of the string functions of svn/mod.rs
    list,   \* FileList.list : Vec<ParsedStatusLine>
    call,   \* the function that was applied last ("none" before any call)
    arg,    \* its integer argument, if it has one (FileList::get), else 0
    ret,    \* the value it returned
    app,    \* the fields of App, and its position in App::run (app.pc)
    env     \* the terminal and the clock: frame width, seconds elapsed, layout

vars == <<text, list, call, arg, ret, app, env>>

(***************************************************************************)
(* Option<T> and Result<T, E>; a panic is an outcome of its own.           *)
(***************************************************************************)
None == [some |-> FALSE]
Some(v) == [some |-> TRUE, val |-> v]
Ok(v) == [kind |-> "Ok", val |-> v]
Err(e) == [kind |-> "Err", err |-> e]
Panic == [kind |-> "Panic"]

(***************************************************************************)
(* The patterns the source searches for.                                   *)
(***************************************************************************)
DotMergeLeft == <<".", "m", "e", "r", "g", "e", "-", "l", "e", "f", "t">>
DotMergeRight == <<".", "m", "e", "r", "g", "e", "-", "r", "i", "g", "h", "t">>
DotWorking == <<".", "w", "o", "r", "k", "i", "n", "g">>
DotMerge == <<".", "m", "e", "r", "g", "e", "-">>

(***************************************************************************)
(* str::contains, str::find, str::split_at.                                *)
(***************************************************************************)
\* whether pat starts at byte offset i (0-based) of s
MatchAt(s, pat, i) ==
    /\ i + Len(pat) <= Len(s)
    /\ SubSeq(s, i + 1, i + Len(pat)) = pat

StrContains(s, pat) == \E i \in 0..Len(s) : MatchAt(s, pat, i)

\* the byte offset of the first match, as an Option<usize>
StrFind(s, pat) ==
    IF \E i \in 0..Len(s) : MatchAt(s, pat, i)
    THEN Some(CHOOSE i \in 0..Len(s) :
                /\ MatchAt(s, pat, i)
                /\ \A j \in 0..(i - 1) : ~MatchAt(s, pat, j))
    ELSE None

\* s[..i]
StrPrefix(s, i) == SubSeq(s, 1, i)

(***************************************************************************)
(* svn/state.rs                                                            *)
(***************************************************************************)
States == {"Clean", "Modified", "Added", "Deleted", "Unversioned",
           "Conflicting", "Replaced", "Missing"}

\* State::from_str with the arm for 'R' lost
StateFromStrNoReplaced(s) ==
    IF Len(s) = 0 THEN Err("unit")
    ELSE CASE s[1] = "M" -> Ok("Modified")
           [] s[1] = "A" -> Ok("Added")
           [] s[1] = "D" -> Ok("Deleted")
           [] s[1] = "?" -> Ok("Unversioned")
           [] s[1] = "C" -> Ok("Conflicting")
           [] s[1] = "!" -> Ok("Missing")
           [] OTHER -> Ok("Clean")

\* State::from_str: Result<State, ()> from the first character of s
StateFromStr(s) ==
    IF Len(s) = 0 THEN Err("unit")
    ELSE CASE s[1] = "M" -> Ok("Modified")
           [] s[1] = "A" -> Ok("Added")
           [] s[1] = "D" -> Ok("Deleted")
           [] s[1] = "?" -> Ok("Unversioned")
           [] s[1] = "C" -> Ok("Conflicting")
           [] s[1] = "R" -> Ok("Replaced")
           [] s[1] = "!" -> Ok("Missing")
           [] OTHER -> Ok("Clean")

(***************************************************************************)
(* svn/mod.rs                                                              *)
(***************************************************************************)
\* the width of the status-code prefix: status_line.split_at(8)
StatusWidth == 8

\* a ParsedStatusLine: (State, PathBuf)
Entry(st, p) == [state |-> st, path |-> p]

\* parse_status_line: split_at panics when the line is shorter than the prefix
ParseStatusLine(status_line) ==
    IF Len(status_line) < StatusWidth THEN Panic
    ELSE LET status == SubSeq(status_line, 1, StatusWidth)
             path == SubSeq(status_line, StatusWidth + 1, Len(status_line))
             state == StateFromStr(status)
         IN  IF state.kind = "Ok"
             THEN Ok(Entry(state.val, path))
             ELSE Err([UnrecognisedStatus |-> status])

\* parse_conflict_part that stops at the first pattern it finds
ParseConflictPartFirstHit(path) ==
    CASE StrContains(path, DotMergeLeft) -> Some("Left")
      [] StrContains(path, DotMergeRight) -> Some("Right")
      [] StrContains(path, DotWorking) -> Some("Working")
      [] OTHER -> None

\* parse_conflict_part: Option<ConflictPart>
ParseConflictPart(path) ==
    LET l == StrContains(path, DotMergeLeft)
        r == StrContains(path, DotMergeRight)
        w == StrContains(path, DotWorking)
    IN  CASE l /\ ~r /\ ~w -> Some("Left")
          [] ~l /\ r /\ ~w -> Some("Right")
          [] ~l /\ ~r /\ w -> Some("Working")
          [] OTHER -> None

IsConflictPart(path) == ParseConflictPart(path).some

\* trim_conflict_suffix that cuts at .merge- whenever it is there
TrimConflictSuffixMergeFirst(path_str) ==
    LET i_merge == StrFind(path_str, DotMerge)
        i_working == StrFind(path_str, DotWorking)
    IN  CASE i_merge.some -> StrPrefix(path_str, i_merge.val)
          [] i_working.some -> StrPrefix(path_str, i_working.val)
          [] OTHER -> path_str

\* trim_conflict_suffix
TrimConflictSuffix(path_str) ==
    LET i_merge == StrFind(path_str, DotMerge)
        i_working == StrFind(path_str, DotWorking)
    IN  CASE ~i_merge.some /\ i_working.some -> StrPrefix(path_str, i_working.val)
          [] i_merge.some /\ ~i_working.some -> StrPrefix(path_str, i_merge.val)
          [] OTHER -> path_str

\* create_empty_text_conflict: Conflict::Text with no part set
CreateEmptyTextConflict(file) ==
    [file |-> file, left |-> None, right |-> None, working |-> None]

\* the markers of the trailer lines svn_status_filter drops
Summary == <<"S", "u", "m", "m", "a", "r", "y">>
OnflictsColon == <<"o", "n", "f", "l", "i", "c", "t", "s", ":">>

\* str::starts_with
StrStartsWith(s, pat) == MatchAt(s, pat, 0)

\* the offset of the first line feed of s, Len(s) when it has none
RECURSIVE FirstLineFeed(_, _)
FirstLineFeed(s, i) ==
    IF i >= Len(s) THEN Len(s)
    ELSE IF s[i + 1] = "\n" THEN i
    ELSE FirstLineFeed(s, i + 1)

\* a line without its line ending: the "\n" and, only when that "\n" is
\* there, a "\r" before it
StripLineEnding(piece) ==
    IF Len(piece) > 0 /\ piece[Len(piece)] = "\n"
    THEN LET body == SubSeq(piece, 1, Len(piece) - 1)
         IN  IF Len(body) > 0 /\ body[Len(body)] = "\r"
             THEN SubSeq(body, 1, Len(body) - 1)
             ELSE body
    ELSE piece

\* str::lines: the pieces that end with each line feed, and the rest when
\* it is not empty, each without its line ending
RECURSIVE StrLines(_)
StrLines(s) ==
    IF Len(s) = 0 THEN <<>>
    ELSE LET i == FirstLineFeed(s, 0)
             n == IF i < Len(s) THEN i + 1 ELSE Len(s)
         IN  <<StripLineEnding(SubSeq(s, 1, n))>> \o StrLines(SubSeq(s, n + 1, Len(s)))

\* svn_status_filter
SvnStatusFilter(line) ==
    ~(Len(line) = 0 \/ StrStartsWith(line, Summary) \/ StrContains(line, OnflictsColon))

\* .map(parse_status_line).collect::<Result<Vec<_>>>() over the lines from
\* position k on: the first line that fails or panics ends the collection
RECURSIVE CollectParsed(_, _, _)
CollectParsed(lines, k, acc) ==
    IF k > Len(lines) THEN Ok(acc)
    ELSE LET parsed == ParseStatusLine(lines[k])
         IN  IF parsed.kind = "Ok"
             THEN CollectParsed(lines, k + 1, Append(acc, parsed.val))
             ELSE parsed

\* parse_svn_status
ParseSvnStatus(svn_status) ==
    CollectParsed(SelectSeq(StrLines(svn_status), SvnStatusFilter), 1, <<>>)

(***************************************************************************)
(* Inputs of the string functions: paths built from a few fragments, and   *)
(* status lines made of an 8-column code and a path.                       *)
(***************************************************************************)
MaxFrags == 3

Frags == { <<"f">>, <<".", "r", "8">>, DotMergeLeft, DotMergeRight,
           DotWorking, DotMerge }

RECURSIVE PathsOf(_)
PathsOf(n) ==
    IF n = 0 THEN { <<>> }
    ELSE LET shorter == PathsOf(n - 1)
         IN  shorter \cup { p \o f : p \in shorter, f \in Frags }

Paths == PathsOf(MaxFrags)

FirstColumns == {"M", "A", "D", "?", "C", "R", "!", " ", "X", "~"}

OtherColumns == { <<" ", " ", " ", " ", " ", " ", " ">>,
                  <<" ", " ", "+", " ", " ", " ", " ">>,
                  <<"M", " ", " ", " ", " ", " ", " ">> }

Lines == { <<c>> \o rest \o p :
             c \in FirstColumns, rest \in OtherColumns, p \in PathsOf(1) }

\* status texts: up to MaxLines lines, the last one with or without its
\* line feed
MaxLines == 3

SummaryLine == Summary \o <<" ", "o", "f", " ", "c">> \o OnflictsColon

CountLine == <<" ", " ", "T", "e", "x", "t", " ", "c">> \o OnflictsColon \o <<" ", "1">>

ModifiedLine == <<"M", " ", " ", " ", " ", " ", " ", " ", "f">>

AddedLine == <<"A", " ", " ", "+", " ", " ", " ", " ", "g">>

DeletedCrLine == <<"D", " ", " ", " ", " ", " ", " ", " ", "h", "\r">>

ShortLine == <<"M", " ", "f">>

StatusLines == { <<>>, SummaryLine, CountLine, ModifiedLine, AddedLine,
                 DeletedCrLine, ShortLine }

RECURSIVE TerminatedTexts(_)
TerminatedTexts(n) ==
    IF n = 0 THEN { <<>> }
    ELSE LET shorter == TerminatedTexts(n - 1)
         IN  shorter \cup { t \o l \o <<"\n">> : t \in shorter, l \in StatusLines }

StatusTexts ==
    TerminatedTexts(MaxLines)
        \cup { t \o l : t \in TerminatedTexts(MaxLines - 1), l \in StatusLines }

Texts == Paths \cup Lines \cup StatusTexts

(***************************************************************************)
(* The string functions applied to one input.                              *)
(***************************************************************************)
InitStr ==
    /\ text \in Texts
    /\ list = <<>>
    /\ call = "none"
    /\ arg = 0
    /\ ret = None
    /\ app = None
    /\ env = None

CallParseStatusLine ==
    /\ call = "none"
    /\ call' = "parse_status_line"
    /\ ret' = ParseStatusLine(text)
    /\ UNCHANGED <<text, list, arg, app, env>>

CallParseConflictPart ==
    /\ call = "none"
    /\ call' = "parse_conflict_part"
    /\ ret' = ParseConflictPart(text)
    /\ UNCHANGED <<text, list, arg, app, env>>

CallIsConflictPart ==
    /\ call = "none"
    /\ call' = "is_conflict_part"
    /\ ret' = IsConflictPart(text)
    /\ UNCHANGED <<text, list, arg, app, env>>

CallTrimConflictSuffix ==
    /\ call = "none"
    /\ call' = "trim_conflict_suffix"
    /\ ret' = TrimConflictSuffix(text)
    /\ UNCHANGED <<text, list, arg, app, env>>

CallParseSvnStatus ==
    /\ call = "none"
    /\ call' = "parse_svn_status"
    /\ ret' = ParseSvnStatus(text)
    /\ UNCHANGED <<text, list, arg, app, env>>

NextStr ==
    \/ CallParseStatusLine
    \/ CallParseSvnStatus
    \/ CallParseConflictPart
    \/ CallIsConflictPart
    \/ CallTrimConflictSuffix

SpecStr == InitStr /\ [][NextStr]_vars

(***************************************************************************)
(* Properties of the string functions (checked under SpecStr).             *)
(***************************************************************************)
\* pat occurs in s: some window of s spells pat, character by character
Occurs(s, pat) ==
    \E k \in 1..Len(s) :
        /\ k + Len(pat) - 1 <= Len(s)
        /\ \A j \in 1..Len(pat) : s[k + j - 1] = pat[j]

\* the state the specification's table gives for a first character
TableState(c) ==
    IF c = "M" THEN "Modified"
    ELSE IF c = "A" THEN "Added"
    ELSE IF c = "D" THEN "Deleted"
    ELSE IF c = "?" THEN "Unversioned"
    ELSE IF c = "C" THEN "Conflicting"
    ELSE IF c = "R" THEN "Replaced"
    ELSE IF c = "!" THEN "Missing"
    ELSE "Clean"

\* C1: for every status line of at least 8 characters parse_status_line
\* returns Ok((state, path)), the state being the table's state for the first
\* character alone and the path being the text after the first 8 characters.
C1_ParseStatusLine ==
    (call = "parse_status_line" /\ Len(text) >= 8) =>
        /\ ret.kind = "Ok"
        /\ ret.val.state = TableState(text[1])
        /\ Len(ret.val.path) = Len(text) - 8
        /\ \A i \in 1..Len(ret.val.path) : ret.val.path[i] = text[i + 8]

\* a line whose first column is a space and whose second is M parsed to Clean
C1_Witness ==
    /\ call = "parse_status_line"
    /\ text = <<" ", "M", " ", " ", " ", " ", " ", " ", "f">>
    /\ ret = Ok(Entry("Clean", <<"f">>))

\* the kinds whose pattern occurs in s
KindsIn(s) ==
    { k \in {"Left", "Right", "Working"} :
        \/ k = "Left" /\ Occurs(s, DotMergeLeft)
        \/ k = "Right" /\ Occurs(s, DotMergeRight)
        \/ k = "Working" /\ Occurs(s, DotWorking) }

\* C8: parse_conflict_part returns a kind exactly when exactly one of
\* .merge-left, .merge-right, .working occurs in the path, the kind being the
\* one that occurs, and None otherwise; is_conflict_part is true exactly then.
C8_ParseConflictPart ==
    /\ call = "parse_conflict_part" =>
          IF Cardinality(KindsIn(text)) = 1
          THEN ret.some /\ ret.val \in KindsIn(text)
          ELSE ret = None
    /\ call = "is_conflict_part" =>
          (ret <=> Cardinality(KindsIn(text)) = 1)

\* a path holding two of the patterns is no conflict part
C8_Witness ==
    /\ call = "parse_conflict_part"
    /\ text = <<"f">> \o DotMergeRight \o DotWorking
    /\ ret = None

\* C9: trim_conflict_suffix returns the prefix that ends just before the
\* first occurrence of the one pattern among .merge- and .working that occurs,
\* and the whole string when neither or both occur.
C9_TrimConflictSuffix ==
    call = "trim_conflict_suffix" =>
        LET m == Occurs(text, DotMerge)
            w == Occurs(text, DotWorking)
            pat == IF m THEN DotMerge ELSE DotWorking
        IN  IF m = w
            THEN ret = text
            ELSE /\ Len(ret) + Len(pat) <= Len(text)
                 /\ \A i \in 1..Len(ret) : ret[i] = text[i]
                 /\ \A j \in 1..Len(pat) : text[Len(ret) + j] = pat[j]
                 /\ ~Occurs(SubSeq(text, 1, Len(ret) + Len(pat) - 1), pat)

\* file.merge-left.r8 is cut back to the file's name
C9_Witness ==
    /\ call = "trim_conflict_suffix"
    /\ text = <<"f">> \o DotMergeLeft \o <<".", "r", "8">>
    /\ ret = <<"f">>

\* a line the specification keeps: not empty, not starting with Summary,
\* not containing onflicts:
IsEntryLine(line) ==
    /\ Len(line) > 0
    /\ ~(Len(line) >= 7 /\ \A j \in 1..7 : line[j] = Summary[j])
    /\ ~Occurs(line, OnflictsColon)

\* C11: parse_svn_status drops exactly the lines that are empty, start with
\* Summary or contain onflicts:, and returns one entry per remaining line, in
\* the order of the lines; empty text gives an empty list.
C11_OneEntryPerLine ==
    call = "parse_svn_status" =>
        LET kept == SelectSeq(StrLines(text), IsEntryLine)
        IN  /\ ret.kind = "Ok"
            /\ Len(ret.val) = Len(kept)
            /\ \A i \in 1..Len(kept) :
                  /\ ret.val[i].state = TableState(kept[i][1])
                  /\ kept[i] = SubSeq(kept[i], 1, 8) \o ret.val[i].path
            /\ text = <<>> => ret.val = <<>>

\* C13: parse_status_line returns Err(UnrecognisedStatus(code)) exactly when
\* the status code of the line has no first character, and Ok for every
\* other line.
C13_ErrOnlyOnEmptyCode ==
    call = "parse_status_line" =>
        IF Len(text) = 0
        THEN ret = Err([UnrecognisedStatus |-> <<>>])
        ELSE ret.kind = "Ok"

(***************************************************************************)
(* svn/filelist.rs                                                         *)
(***************************************************************************)
\* the closure of the filters of get and renderable
NotConflictPart(e) == ~IsConflictPart(e.path)

\* FileList::renderable: the entries that pass the filter, collected in order
Renderable(l) == SelectSeq(l, NotConflictPart)

\* Iterator::nth over the filtered iterator, from position k of the list:
\* entries that fail the filter are skipped, the others are counted down
RECURSIVE FilterNth(_, _, _)
FilterNth(l, k, n) ==
    IF k > Len(l) THEN None
    ELSE IF ~NotConflictPart(l[k]) THEN FilterNth(l, k + 1, n)
    ELSE IF n = 0 THEN Some(l[k])
    ELSE FilterNth(l, k + 1, n - 1)

\* FileList::get taken as an offset into the raw list
GetRawIndex(l, index) ==
    IF index < Len(l) THEN Some(l[index + 1]) ELSE None

\* FileList::get
Get(l, index) == FilterNth(l, 1, index)

\* FileList::has_conflicts
HasConflicts(l) == \E i \in 1..Len(l) : l[i].state = "Conflicting"

\* HashMap::new()
EmptyMap == [k \in {} |-> None]

\* HashMap::insert / Entry::or_insert of a key that is not in the map
MapInsert(m, key, v) ==
    [k \in (DOMAIN m) \cup {key} |-> IF k = key THEN v ELSE m[k]]

\* the closure given to and_modify: the field of the matched part kind is
\* set to the path; the source panics when the path is no conflict part
ModifyConflict(conflict, path) ==
    LET part == ParseConflictPart(path)
    IN  CASE part = Some("Left") -> Ok([conflict EXCEPT !.left = Some(path)])
          [] part = Some("Right") -> Ok([conflict EXCEPT !.right = Some(path)])
          [] part = Some("Working") -> Ok([conflict EXCEPT !.working = Some(path)])
          [] OTHER -> Panic

\* one iteration of the loop of FileList::conflicts over entry e;
\* acc is [panicked, map], the loop's conflict_map and whether it panicked
ConflictStep(acc, e) ==
    IF acc.panicked THEN acc
    ELSE IF e.state = "Conflicting" /\ e.path \notin DOMAIN acc.map
    THEN [acc EXCEPT !.map = MapInsert(acc.map, e.path, CreateEmptyTextConflict(e.path))]
    ELSE IF e.state = "Unversioned" /\ IsConflictPart(e.path)
    THEN LET path_key == TrimConflictSuffix(e.path)
         IN  IF path_key \in DOMAIN acc.map
             THEN LET modified == ModifyConflict(acc.map[path_key], e.path)
                  IN  IF modified.kind = "Ok"
                      THEN [acc EXCEPT !.map[path_key] = modified.val]
                      ELSE [acc EXCEPT !.panicked = TRUE]
             ELSE [acc EXCEPT !.map = MapInsert(acc.map, path_key,
                                                CreateEmptyTextConflict(e.path))]
    ELSE acc

\* the loop of FileList::conflicts over the first n entries
RECURSIVE ConflictLoop(_, _)
ConflictLoop(l, n) ==
    IF n = 0 THEN [panicked |-> FALSE, map |-> EmptyMap]
    ELSE ConflictStep(ConflictLoop(l, n - 1), l[n])

\* conflict_map when the loop of FileList::conflicts ends
ConflictMap(l) == ConflictLoop(l, Len(l)).map

ConflictsPanics(l) == ConflictLoop(l, Len(l)).panicked

\* the orders in which a HashMap of these keys may yield its values
Orderings(keys) ==
    { o \in [1..Cardinality(keys) -> keys] :
        \A i, j \in 1..Cardinality(keys) : i # j => o[i] # o[j] }

\* into_values().collect() in iteration order o
ValuesIn(m, o) == [i \in 1..Len(o) |-> m[o[i]]]

(***************************************************************************)
(* File lists: every list of up to MaxEntries entries over a few states    *)
(* and paths, and the lists of the repository's tests.                     *)
(***************************************************************************)
MaxEntries == 3

PathF == <<"f">>
PathG == <<"g">>
PathH == <<"h">>
PathLeft == PathF \o DotMergeLeft \o <<".", "r", "8">>
PathRight == PathF \o DotMergeRight \o <<".", "r", "1", "0">>
PathWorking == PathF \o DotWorking

ListStates == {"Conflicting", "Unversioned", "Modified"}

ListPaths == {PathF, PathLeft, PathRight, PathWorking, PathG}

ListEntries == { Entry(st, p) : st \in ListStates, p \in ListPaths }

\* the entries of parses_text_conflicts_correctly / can_get_changes_correctly
TextConflict ==
    << Entry("Conflicting", PathF), Entry("Unversioned", PathLeft),
       Entry("Unversioned", PathRight), Entry("Unversioned", PathWorking) >>

TestLists ==
    { TextConflict,
      TextConflict \o << Entry("Added", PathG), Entry("Modified", PathH) >>,
      << Entry("Unversioned", PathWorking), Entry("Conflicting", PathF),
         Entry("Unversioned", PathLeft), Entry("Unversioned", PathRight) >> }

Lists == (UNION { [1..n -> ListEntries] : n \in 0..MaxEntries }) \cup TestLists

InitList ==
    /\ text = <<>>
    /\ list \in Lists
    /\ call = "none"
    /\ arg = 0
    /\ ret = None
    /\ app = None
    /\ env = None

CallConflicts ==
    /\ call = "none"
    /\ call' = "conflicts"
    /\ IF ConflictsPanics(list)
       THEN ret' = Panic
       ELSE \E o \in Orderings(DOMAIN ConflictMap(list)) :
                ret' = Ok(ValuesIn(ConflictMap(list), o))
    /\ UNCHANGED <<text, list, arg, app, env>>

CallHasConflicts ==
    /\ call = "none"
    /\ call' = "has_conflicts"
    /\ ret' = HasConflicts(list)
    /\ UNCHANGED <<text, list, arg, app, env>>

CallGet ==
    /\ call = "none"
    /\ \E index \in 0..(Len(list) + 1) :
        /\ call' = "get"
        /\ arg' = index
        /\ ret' = Get(list, index)
    /\ UNCHANGED <<text, list, app, env>>

CallRenderable ==
    /\ call = "none"
    /\ call' = "renderable"
    /\ ret' = Renderable(list)
    /\ UNCHANGED <<text, list, arg, app, env>>

NextList ==
    \/ CallConflicts
    \/ CallHasConflicts
    \/ CallGet
    \/ CallRenderable

SpecList == InitList /\ [][NextList]_vars

(***************************************************************************)
(* Properties of the file list (checked under SpecList).                   *)
(***************************************************************************)
\* an entry the specification keeps in the renderable view: its path is
\* not a conflict part (exactly one of the three patterns occurs in one)
IsPlainEntry(e) == Cardinality(KindsIn(e.path)) # 1

\* the list of the specification's example for get
GetExample == TextConflict \o << Entry("Added", PathG), Entry("Modified", PathH) >>

\* C2: get(i) is the i-th element of renderable(), None when i is not below
\* its length; renderable() is the list without the entries whose path is a
\* conflict part, in the original order; in the example get(1) is (Added, g)
\* and get(2) is (Modified, h).
C2_GetIsRenderableNth ==
    /\ call = "get" =>
          /\ ret = IF arg < Len(Renderable(list))
                   THEN Some(Renderable(list)[arg + 1])
                   ELSE None
          /\ (list = GetExample /\ arg = 1) => ret = Some(Entry("Added", PathG))
          /\ (list = GetExample /\ arg = 2) => ret = Some(Entry("Modified", PathH))
    /\ call = "renderable" => ret = SelectSeq(list, IsPlainEntry)

\* get(2) on the example skips the three conflict parts
C2_Witness ==
    /\ call = "get"
    /\ list = GetExample
    /\ arg = 2
    /\ ret = Some(Entry("Modified", PathH))

\* the paths of the Conflicting entries of l
ConflictingPaths(l) == { l[i].path : i \in { j \in 1..Len(l) : l[j].state = "Conflicting" } }

\* the positions of the Unversioned conflict-part entries of l
PartPositions(l) ==
    { i \in 1..Len(l) : l[i].state = "Unversioned" /\ Cardinality(KindsIn(l[i].path)) = 1 }

\* l holds one text conflict: a Conflicting entry f and, as its only
\* Unversioned conflict parts, f.merge-left.rN, f.merge-right.rM and f.working
HoldsOneTextConflict(l) ==
    /\ ConflictingPaths(l) = {PathF}
    /\ { l[i].path : i \in PartPositions(l) } = {PathLeft, PathRight, PathWorking}

\* C3: for a list holding one Conflicting entry p and the three Unversioned
\* entries p.merge-left.rN, p.merge-right.rM, p.working, conflicts() returns
\* exactly one record, file = p with left, right and working set to the three
\* paths, and has_conflicts() is true.
C3_OneFullRecord ==
    HoldsOneTextConflict(list) =>
        /\ call = "conflicts" =>
              ret = Ok(<< [file |-> PathF, left |-> Some(PathLeft),
                           right |-> Some(PathRight), working |-> Some(PathWorking)] >>)
        /\ call = "has_conflicts" => ret = TRUE

\* C4: conflicts() holds exactly one record with file = p for each path p of
\* a Conflicting entry, wherever the conflict parts stand in the list, and
\* the record kept under the key p is that record.
C4_OneRecordPerConflict ==
    (call = "conflicts" /\ ret.kind = "Ok") =>
        \A p \in ConflictingPaths(list) :
            /\ Cardinality({ j \in 1..Len(ret.val) : ret.val[j].file = p }) = 1
            /\ p \in DOMAIN ConflictMap(list)
            /\ ConflictMap(list)[p].file = p

\* the set of records conflicts() yields for l
ConflictSet(l) == { ConflictMap(l)[k] : k \in DOMAIN ConflictMap(l) }

\* the permutations of l
Reorderings(l) == { [i \in 1..Len(l) |-> l[o[i]]] : o \in Orderings(1..Len(l)) }

\* C5: conflicts() returns the same set of records for every permutation of
\* the list.
C5_OrderIndependent ==
    (call = "conflicts" /\ ret.kind = "Ok") =>
        \A q \in Reorderings(list) :
            ConflictSet(q) = { ret.val[j] : j \in 1..Len(ret.val) }

\* the field of record c that holds the part of kind k
PartField(c, k) ==
    IF k = "Left" THEN c.left ELSE IF k = "Right" THEN c.right ELSE c.working

\* C6: after conflicts(), every Unversioned conflict-part entry of kind k
\* with trimmed key K is stored in field k of the record keyed K, also when
\* that entry created the record.
C6_PartStored ==
    (call = "conflicts" /\ ret.kind = "Ok") =>
        \A i \in PartPositions(list) :
            LET key == TrimConflictSuffix(list[i].path)
                kind == CHOOSE k \in KindsIn(list[i].path) : TRUE
            IN  /\ key \in DOMAIN ConflictMap(list)
                /\ PartField(ConflictMap(list)[key], kind) = Some(list[i].path)
                /\ \E j \in 1..Len(ret.val) : ret.val[j] = ConflictMap(list)[key]

\* C7: the file of every record conflicts() returns is the path of some
\* Conflicting entry of the list.
C7_FileIsConflicting ==
    (call = "conflicts" /\ ret.kind = "Ok") =>
        \A j \in 1..Len(ret.val) : ret.val[j].file \in ConflictingPaths(list)

\* C10: in every path is_conflict_part accepts at most one of .merge- and
\* .working occurs, so the key trim_conflict_suffix gives for it, the key
\* conflicts() files it under, is a strictly shorter prefix of the path.
C10_KeyIsShorterPrefix ==
    (call = "is_conflict_part" /\ ret = TRUE) =>
        LET key == TrimConflictSuffix(text)
        IN  /\ ~(Occurs(text, DotMerge) /\ Occurs(text, DotWorking))
            /\ Len(key) < Len(text)
            /\ key = SubSeq(text, 1, Len(key))

(***************************************************************************)
(* svn/state.rs, svn/error.rs, command.rs                                  *)
(***************************************************************************)
\* State::is_commitable
IsCommitable(st) == st \in {"Modified", "Added", "Deleted"}

\* State::is_revertable that leaves Deleted out
IsRevertableWithoutDeleted(st) ==
    st \in {"Modified", "Added", "Conflicting", "Missing"}

\* State::is_revertable
IsRevertable(st) == st \in {"Modified", "Added", "Deleted", "Conflicting", "Missing"}

\* State::is_deletable that also accepts Deleted
IsDeletableWithDeleted(st) == st \in {"Modified", "Missing", "Conflicting", "Deleted"}

\* State::is_deletable
IsDeletable(st) == st \in {"Modified", "Missing", "Conflicting"}

\* State::is_addable
IsAddable(st) == st = "Unversioned"

\* CmdResult(success, stdout, stderr)
CmdResult(success, stdout, stderr) ==
    [success |-> success, stdout |-> stdout, stderr |-> stderr]

\* CmdResult::output
Output(res) == IF res.success THEN res.stdout ELSE res.stderr

\* the variants of svn::Error that are built
ErrorUnknown(s) == [Unknown |-> s]
ErrorIo(s) == [Io |-> s]
ErrorBranchParseFailure == [BranchParseFailure |-> TRUE]

\* impl Display for Error
ErrorToString(e) ==
    CASE "Io" \in DOMAIN e -> e.Io
      [] "Unknown" \in DOMAIN e -> e.Unknown
      [] "UnrecognisedStatus" \in DOMAIN e ->
            <<"Unrecognised status: ", e.UnrecognisedStatus>>
      [] "BranchParseFailure" \in DOMAIN e -> "failed to parse URL from svn info"

\* get_svn_status on the outcome of run_command("svn", ["status", cwd])
GetSvnStatus(run) ==
    IF run.kind = "Err" THEN Err(run.err)
    ELSE IF run.val.success THEN ParseSvnStatus(Output(run.val))
    ELSE Err(ErrorUnknown(Output(run.val)))

\* the pieces of s between its "/" characters
RECURSIVE SplitSlash(_)
SplitSlash(s) ==
    IF \A i \in 1..Len(s) : s[i] # "/" THEN <<s>>
    ELSE LET i == CHOOSE k \in 1..Len(s) :
                      s[k] = "/" /\ \A j \in 1..(k - 1) : s[j] # "/"
         IN  <<SubSeq(s, 1, i - 1)>> \o SplitSlash(SubSeq(s, i + 1, Len(s)))

\* Path::file_name: the last component of the path when it is a normal
\* one; the components leave out empty pieces and every "." but a leading one
FileName(path) ==
    LET parts == SplitSlash(path)
        kept == {i \in 1..Len(parts) :
                    parts[i] # <<>> /\ (parts[i] = <<".">> => i = 1)}
    IN  IF kept = {} THEN None
        ELSE LET last == parts[CHOOSE i \in kept : \A j \in kept : j <= i]
             IN  IF last \in {<<".">>, <<".", ".">>} THEN None ELSE Some(last)

UrlColon == <<"U", "R", "L", ":">>

\* parse_branch_name: the slice line[5..] and the expect on file_name panic
ParseBranchName(svn_info) ==
    LET lines == StrLines(svn_info)
        urls == {i \in 1..Len(lines) : StrStartsWith(lines[i], UrlColon)}
    IN  IF urls = {} THEN Err(ErrorBranchParseFailure)
        ELSE LET line == lines[CHOOSE i \in urls : \A j \in urls : i <= j]
             IN  IF Len(line) < 5 THEN Panic
                 ELSE LET name == FileName(SubSeq(line, 6, Len(line)))
                      IN  IF name.some THEN Ok(name.val) ELSE Panic

\* get_branch_name on the outcome of run_command("svn", ["info", path])
GetBranchName(run) ==
    IF run.kind = "Err" THEN Err(run.err)
    ELSE IF run.val.success THEN ParseBranchName(Output(run.val))
    ELSE Err(ErrorUnknown(Output(run.val)))

(***************************************************************************)
(* Rect, Position, Layout and the List widget, as app.rs and app/ui.rs     *)
(* use them.                                                               *)
(***************************************************************************)
Min(a, b) == IF a < b THEN a ELSE b
Max(a, b) == IF a > b THEN a ELSE b

\* saturating_sub
SaturatingSub(a, b) == IF a > b THEN a - b ELSE 0

\* usize::MAX, for a usize of UsizeBits bits
UsizeBits == 4
UsizeMax == 2^UsizeBits - 1

\* usize::saturating_add
SaturatingAdd(a, b) == IF a + b > UsizeMax THEN UsizeMax ELSE a + b

Rect(x, y, width, height) == [x |-> x, y |-> y, width |-> width, height |-> height]

\* Position { x: mouse_loc.1, y: mouse_loc.0 } of a (row, col) pair
Position(loc) == [x |-> loc[2], y |-> loc[1]]

\* Rect::contains
Contains(r, pos) ==
    /\ pos.x >= r.x
    /\ pos.x < r.x + r.width
    /\ pos.y >= r.y
    /\ pos.y < r.y + r.height

\* Rect::inner(Margin { horizontal: 1, vertical: 0 })
InnerHorizontal(r) ==
    IF r.width < 2 THEN Rect(r.x, r.y, 0, 0)
    ELSE Rect(r.x + 1, r.y, r.width - 2, r.height)

\* the height of the terminal
FrameHeight == 10

\* frame.area()
FrameArea(width) == Rect(0, 0, width, FrameHeight)

\* Layout::vertical([Length(4), Fill(1), Length(1)]).split(frame.area())[1]
ChangesLayoutArea(width) == Rect(0, 4, width, FrameHeight - 5)

\* the ways Layout::vertical([Length(3); n]) may share the rows of an area
\* lower than 3 * n among its n segments
Splits == {"even", "first"}

\* the height of segment i (from 0) of n in an area of the given height
SegmentHeight(split, i, n, height) ==
    IF split = "even"
    THEN (height \div n) + (IF i < height % n THEN 1 ELSE 0)
    ELSE Min(3, SaturatingSub(height, 3 * i))

\* the row where segment i starts
RECURSIVE SegmentOffset(_, _, _, _)
SegmentOffset(split, i, n, height) ==
    IF i = 0 THEN 0
    ELSE SegmentOffset(split, i - 1, n, height) + SegmentHeight(split, i - 1, n, height)

\* Layout::vertical([Length(3); n]).split(area)[i]
ButtonArea(split, area, i, n) ==
    Rect(area.x, area.y + SegmentOffset(split, i, n, area.height),
         area.width, SegmentHeight(split, i, n, area.height))

\* the scroll padding List::render can afford around the selected item
ScrollPadding(sel, n, height) ==
    IF Cardinality({i \in SaturatingSub(sel, 1)..(sel + 1) : i < n}) <= height
    THEN 1 ELSE 0

\* StatefulWidget::render of List with scroll_padding(1) over n items of
\* one row each in a list area of the given height: the selection and the
\* offset it leaves in the ListState
ListRender(selected, offset, n, height) ==
    IF n = 0 THEN [selected |-> None, offset |-> 0]
    ELSE LET sel1 == IF selected.some /\ selected.val >= n THEN Some(n - 1) ELSE selected
             first0 == Min(offset, n - 1)
             last0 == first0 + Min(height, n - first0)
             pad == ScrollPadding(sel1.val, n, height)
             idx == IF ~sel1.some THEN first0
                    ELSE Min(n - 1,
                             IF Min(sel1.val + pad, n - 1) >= last0 THEN sel1.val + pad
                             ELSE IF SaturatingSub(sel1.val, pad) < first0
                                  THEN SaturatingSub(sel1.val, pad)
                                  ELSE sel1.val)
             first1 == IF idx >= last0 THEN Max(first0, idx + 1 - height) ELSE first0
         IN  [selected |-> sel1, offset |-> Min(first1, idx)]

(***************************************************************************)
(* app.rs: the handlers of App, each a function from the App before the    *)
(* call (and what the outside world answers) to the App after it.  A panic *)
(* leaves the App as it was at the panic, with pc = "panicked".            *)
(***************************************************************************)
\* Config::default().svn_status_timeout
SvnStatusTimeout == 2

\* std::env::current_dir()
Cwd == <<".">>

\* App::new at second 0
NewApp ==
    [ pc |-> "start",
      running |-> TRUE,
      events |-> <<>>,
      current_branch |-> "",
      file_list |-> <<>>,
      selected |-> None,
      offset |-> 0,
      last_updated |-> 0,
      bar_position |-> 0,
      bar_content_length |-> 0,
      changes_area |-> None,
      change_popup_area |-> None,
      mouse_loc |-> <<0, 0>>,
      state |-> "Main",
      has_focus |-> TRUE,
      last_message |-> "",
      buttons |-> <<>>,
      drawn |-> <<>>,     \* the popup buttons the last frame showed
      ran |-> <<>>,       \* the commands run since the last frame
      handled |-> None ]  \* the event handled since the last frame

\* AppEvent values
AppQuit == [type |-> "Quit"]
AppUpdateRequest == [type |-> "UpdateRequest"]
AppMessage(msg) == [type |-> "Message", msg |-> msg]

\* self.events.send(event)
Send(a, event) == [a EXCEPT !.events = Append(@, event)]

\* how a command ended: run is Err of an io::Error, or Ok of a CmdResult
Outcome(run) ==
    IF run.kind = "Err" THEN "error"
    ELSE IF run.val.success THEN "success" ELSE "failure"

\* run_command(program, args ++ paths) and how it ended
Command(program, args, paths, outcome) ==
    [program |-> program, args |-> args, paths |-> paths, outcome |-> outcome]
Run(a, program, args, paths, outcome) ==
    [a EXCEPT !.ran = Append(@, Command(program, args, paths, outcome))]

\* the panic of an unwind: nothing after it runs
Panicked(a) == [a EXCEPT !.pc = "panicked"]

\* App::quit
Quit(a) == [a EXCEPT !.running = FALSE]

\* App::close_change_popup that leaves the rectangle of the popup
CloseChangePopupStateOnly(a) == [a EXCEPT !.state = "Main"]

\* App::close_change_popup
CloseChangePopup(a) == [a EXCEPT !.state = "Main", !.change_popup_area = None]

\* App::update_svn_status that takes the selection away with the old list
UpdateSvnStatusResetsSelection(a, run, now) ==
    LET a1 == Run(a, "svn", <<"status">>, <<Cwd>>, Outcome(run))
        status == GetSvnStatus(run)
    IN  CASE status.kind = "Panic" -> Panicked(a1)
          [] status.kind = "Ok" ->
                [a1 EXCEPT !.file_list = status.val, !.selected = None,
                           !.last_updated = now]
          [] OTHER ->
                [Send(a1, AppMessage(ErrorToString(status.err)))
                     EXCEPT !.last_updated = now]

\* App::update_svn_status that empties the list when the fetch fails
UpdateSvnStatusClearsOnFailure(a, run, now) ==
    LET a1 == Run(a, "svn", <<"status">>, <<Cwd>>, Outcome(run))
        status == GetSvnStatus(run)
    IN  CASE status.kind = "Panic" -> Panicked(a1)
          [] status.kind = "Ok" ->
                [a1 EXCEPT !.file_list = status.val, !.last_updated = now]
          [] OTHER ->
                [Send(a1, AppMessage(ErrorToString(status.err)))
                     EXCEPT !.file_list = <<>>, !.last_updated = now]

\* App::update_svn_status, run being what svn status answers
UpdateSvnStatus(a, run, now) ==
    LET a1 == Run(a, "svn", <<"status">>, <<Cwd>>, Outcome(run))
        status == GetSvnStatus(run)
    IN  CASE status.kind = "Panic" -> Panicked(a1)
          [] status.kind = "Ok" ->
                [a1 EXCEPT !.file_list = status.val, !.last_updated = now]
          [] OTHER ->
                [Send(a1, AppMessage(ErrorToString(status.err)))
                     EXCEPT !.last_updated = now]

\* App::update_branch_name, info being what run_command gives for svn info
UpdateBranchName(a, info) ==
    LET a1 == Run(a, "svn", <<"info">>, <<Cwd>>, Outcome(info))
        branch == GetBranchName(info)
    IN  CASE branch.kind = "Panic" -> Panicked(a1)
          [] branch.kind = "Ok" -> [a1 EXCEPT !.current_branch = branch.val]
          [] OTHER -> [a1 EXCEPT !.current_branch = ErrorToString(branch.err)]

\* App::current_mouse_section that tests the Changes region first
CurrentMouseSectionChangesFirst(a) ==
    IF a.changes_area.some /\ Contains(a.changes_area.val, Position(a.mouse_loc))
    THEN Some("Changes")
    ELSE IF a.change_popup_area.some
            /\ Contains(a.change_popup_area.val, Position(a.mouse_loc))
    THEN Some("ChangePopup")
    ELSE None

\* App::current_mouse_section
CurrentMouseSection(a) ==
    IF a.change_popup_area.some
       /\ Contains(a.change_popup_area.val, Position(a.mouse_loc))
    THEN Some("ChangePopup")
    ELSE IF a.changes_area.some /\ Contains(a.changes_area.val, Position(a.mouse_loc))
    THEN Some("Changes")
    ELSE None

\* App::get_selected_changes that indexes the raw list
GetSelectedChangesOfRawList(a) ==
    IF a.selected.some /\ a.selected.val < Len(a.file_list)
    THEN Some(<<a.file_list[a.selected.val + 1]>>)
    ELSE None

\* App::get_selected_changes
GetSelectedChanges(a) ==
    IF a.selected.some
    THEN LET change == Get(a.file_list, a.selected.val)
         IN  IF change.some THEN Some(<<change.val>>) ELSE None
    ELSE None

\* App::get_selected_change
GetSelectedChange(a) ==
    IF a.selected.some THEN Get(a.file_list, a.selected.val) ELSE None

\* App::perform_svn_function that leaves the refresh to the timer
PerformSvnFunctionWithoutRefresh(a, sub, run, status, now) ==
    LET selected == GetSelectedChanges(a)
    IN  IF ~selected.some THEN a
        ELSE LET a1 == Run(a, "svn", <<sub>>, <<selected.val[1].path>>, Outcome(run))
             IN  CASE run.kind = "Err" ->
                        Send(a1, AppMessage(ErrorToString(run.err)))
                   [] run.val.success -> a1
                   [] OTHER -> Send(a1, AppMessage(Output(run.val)))

\* App::perform_svn_function(func), func running svn <sub> <paths>: run is
\* what that command answers, status what the svn status after it answers
PerformSvnFunction(a, sub, run, status, now) ==
    LET selected == GetSelectedChanges(a)
    IN  IF ~selected.some THEN a
        ELSE LET a1 == Run(a, "svn", <<sub>>, <<selected.val[1].path>>, Outcome(run))
             IN  CASE run.kind = "Err" ->
                        Send(a1, AppMessage(ErrorToString(run.err)))
                   [] run.val.success -> UpdateSvnStatus(a1, status, now)
                   [] OTHER -> Send(a1, AppMessage(Output(run.val)))

\* the arguments open_change_file gives zellij before the path
ZellijArgs ==
    <<"edit", "-f", "--height", "70%", "--width", "70%", "-x", "15%", "-y", "15%">>

\* App::open_change_file
OpenChangeFile(a, run) ==
    LET selected == GetSelectedChanges(a)
    IN  IF ~selected.some THEN a
        ELSE LET a1 == Run(a, "zellij", ZellijArgs, <<selected.val[1].path>>, Outcome(run))
             IN  CASE run.kind = "Err" ->
                        Send(a1, AppMessage(ErrorToString(run.err)))
                   [] run.val.success -> a1
                   [] OTHER -> Send(a1, AppMessage(Output(run.val)))

\* func(self) for the fn(&mut App) a button holds
CallButton(a, func, run, status, now) ==
    CASE func = "open_change_file" -> OpenChangeFile(a, run)
      [] func = "delete_change_file" -> PerformSvnFunction(a, "remove", run, status, now)
      [] func = "add_change_file" -> PerformSvnFunction(a, "add", run, status, now)
      [] func = "revert_change_file" -> PerformSvnFunction(a, "revert", run, status, now)
      [] func = "commit_change_file" -> PerformSvnFunction(a, "commit", run, status, now)

\* the fold of handle_click over self.buttons from position k on: the
\* function of the last button whose rectangle contains pos
RECURSIVE LastButtonAt(_, _, _, _)
LastButtonAt(buttons, pos, k, acc) ==
    IF k > Len(buttons) THEN acc
    ELSE LastButtonAt(buttons, pos, k + 1,
                      IF Contains(buttons[k].rect, pos)
                      THEN Some(buttons[k].func) ELSE acc)

\* the index handle_click computes from the row of the pointer
ClickIndex(a) ==
    SaturatingSub((a.mouse_loc[1] - a.changes_area.val.y) + a.offset, 1)

\* App::handle_click
HandleClick(a, button, run, status, now) ==
    LET section == CurrentMouseSection(a)
    IN  CASE section = Some("Changes") ->
                LET index == ClickIndex(a)
                    inside == index <= Len(Renderable(a.file_list))
                    a1 == IF button = "Right"
                          THEN IF inside
                               THEN [a EXCEPT !.selected = Some(index),
                                              !.change_popup_area = None,
                                              !.state = "ChangePopup"]
                               ELSE a
                          ELSE CloseChangePopup(a)
                IN  IF button = "Left"
                    THEN [a1 EXCEPT !.selected = IF inside THEN Some(index) ELSE None]
                    ELSE a1
          [] section = Some("ChangePopup") ->
                LET func == LastButtonAt(a.buttons, Position(a.mouse_loc), 1, None)
                    a1 == IF func.some THEN CallButton(a, func.val, run, status, now)
                          ELSE a
                IN  IF a1.pc = "panicked" THEN a1 ELSE CloseChangePopup(a1)
          [] OTHER -> CloseChangePopup([a EXCEPT !.selected = None])

\* ScrollbarState: the fields handle_scroll and render_file_list set
ScrollbarState(content_length, position) ==
    [content_length |-> content_length, position |-> position]

\* handle_scroll that moves the scrollbar by one from where it was
HandleScrollMovesBar(dir, offset, bar_state) ==
    LET moved == IF dir = "Up" THEN SaturatingSub(offset, 1)
                 ELSE SaturatingAdd(offset, 1)
    IN  [offset |-> moved,
         bar_state |-> [bar_state EXCEPT !.position =
                            IF dir = "Up" THEN SaturatingSub(@, 1)
                            ELSE SaturatingAdd(@, 1)]]

\* handle_scroll(dir, offset, bar_state): the offset and the scrollbar state
\* it leaves
HandleScroll(dir, offset, bar_state) ==
    LET moved == IF dir = "Up" THEN SaturatingSub(offset, 1)
                 ELSE SaturatingAdd(offset, 1)
    IN  [offset |-> moved, bar_state |-> [bar_state EXCEPT !.position = moved]]

\* App::handle_mouse_scroll that does not look where the pointer is
HandleMouseScrollAnywhere(a, dir) ==
    IF a.selected.some
    THEN LET scrolled == HandleScroll(dir, a.selected.val,
                                      ScrollbarState(a.bar_content_length, a.bar_position))
         IN  [a EXCEPT !.selected = Some(scrolled.offset),
                       !.bar_position = scrolled.bar_state.position,
                       !.bar_content_length = scrolled.bar_state.content_length]
    ELSE a

\* App::handle_mouse_scroll: handle_scroll is given the selected index of
\* list_state and changes_scrollbar_state
HandleMouseScroll(a, dir) ==
    IF CurrentMouseSection(a) = Some("Changes") /\ a.selected.some
    THEN LET scrolled == HandleScroll(dir, a.selected.val,
                                      ScrollbarState(a.bar_content_length, a.bar_position))
         IN  [a EXCEPT !.selected = Some(scrolled.offset),
                       !.bar_position = scrolled.bar_state.position,
                       !.bar_content_length = scrolled.bar_state.content_length]
    ELSE a

\* App::handle_mouse_event
HandleMouseEvent(a, kind, loc, run, status, now) ==
    LET a1 == [a EXCEPT !.mouse_loc = loc]
    IN  CASE kind \in {"Left", "Right", "Middle"} -> HandleClick(a1, kind, run, status, now)
          [] kind = "ScrollDown" -> HandleMouseScroll(a1, "Down")
          [] kind = "ScrollUp" -> HandleMouseScroll(a1, "Up")
          [] OTHER -> a1

\* App::handle_key_event whose Escape quits in every state
HandleKeyEventEscQuits(a, key) ==
    CASE key \in {"Esc", "q", "Ctrl-c"} -> Send(a, AppQuit)
      [] key = "r" -> Send(a, AppUpdateRequest)
      [] OTHER -> a

\* App::handle_key_event
HandleKeyEvent(a, key) ==
    CASE key = "Esc" /\ a.state # "Main" -> [a EXCEPT !.state = "Main"]
      [] key \in {"Esc", "q", "Ctrl-c"} -> Send(a, AppQuit)
      [] key = "r" -> Send(a, AppUpdateRequest)
      [] OTHER -> a

\* the readings of the clock in a second
TicksPerSecond == 2

\* Duration::num_seconds: the whole seconds of a duration
NumSeconds(duration) ==
    IF duration >= 0 THEN duration \div TicksPerSecond
    ELSE 0 - ((0 - duration) \div TicksPerSecond)

\* time_for_update that is true from the timeout on
TimeForUpdateAtTimeout(last_updated, timeout, now) ==
    NumSeconds(now - last_updated) >= timeout

\* time_for_update, Utc::now() reading now
TimeForUpdate(last_updated, timeout, now) == NumSeconds(now - last_updated) > timeout

\* App::tick
TickHandler(a, now) ==
    IF TimeForUpdate(a.last_updated, SvnStatusTimeout, now)
    THEN Send(a, AppUpdateRequest)
    ELSE a

\* the FocusLost arm of handle_events
FocusLostHandler(a) ==
    [CloseChangePopup(a) EXCEPT !.selected = None, !.has_focus = FALSE]

\* the UpdateRequest arm of handle_events
UpdateRequestHandler(a, info, status, now) ==
    LET a1 == UpdateBranchName(a, info)
    IN  IF a1.pc = "panicked" THEN a1 ELSE UpdateSvnStatus(a1, status, now)

\* the FocusGained arm of handle_events
FocusGainedHandler(a, info, status, now) ==
    LET a1 == UpdateRequestHandler(a, info, status, now)
    IN  IF a1.pc = "panicked" THEN a1 ELSE [a1 EXCEPT !.has_focus = TRUE]

(***************************************************************************)
(* app/ui.rs                                                               *)
(***************************************************************************)
MINIMUM_UI_WIDTH == 15

\* a button of the popup: its label and the fn(&mut App) it is zipped with
Button(label, func) == [label |-> label, func |-> func]

\* btn_widgets zipped with btn_funcs, for an entry in state st
PopupButtons(st) ==
    <<Button("Open", "open_change_file")>>
    \o (IF IsDeletable(st) THEN <<Button("Delete", "delete_change_file")>> ELSE <<>>)
    \o (IF IsRevertable(st) THEN <<Button("Revert", "revert_change_file")>> ELSE <<>>)
    \o (IF IsCommitable(st) THEN <<Button("Commit", "commit_change_file")>> ELSE <<>>)
    \o (IF IsAddable(st) THEN <<Button("Add", "add_change_file")>> ELSE <<>>)

\* b.to_string().len() of a button label
LabelLen(label) ==
    CASE label = "Open" -> 4
      [] label = "Add" -> 3
      [] OTHER -> 6

\* the largest label length of a non-empty sequence of buttons
MaxLabelLen(buttons) ==
    CHOOSE m \in {LabelLen(buttons[i].label) : i \in 1..Len(buttons)} :
        \A i \in 1..Len(buttons) : LabelLen(buttons[i].label) <= m

\* App::calculate_popup_rect
CalculatePopupRect(mouse_loc, buttons, allowed_area) ==
    LET row == mouse_loc[1]
        col == mouse_loc[2]
        width == MaxLabelLen(buttons) + 6
        height == Len(buttons)
    IN  Rect(IF col + width >= allowed_area.width
             THEN SaturatingSub(col, (col + width) - allowed_area.width)
             ELSE col,
             row, width, height)

\* the buttons of position k and later that the fold of handle_click can
\* return: those that contain a place of the pointer no later button contains
RECURSIVE Reachable(_, _, _)
Reachable(buttons, k, locs) ==
    IF k > Len(buttons) THEN <<>>
    ELSE (IF \E loc \in locs :
                /\ Contains(buttons[k].rect, Position(loc))
                /\ \A j \in (k + 1)..Len(buttons) :
                      ~Contains(buttons[j].rect, Position(loc))
          THEN <<buttons[k]>> ELSE <<>>)
         \o Reachable(buttons, k + 1, locs)

\* self.buttons after the pushes of one frame.  The vector is never
\* cleared; of what it holds, the buttons the fold of handle_click cannot
\* return at any place the pointer goes to are left out.
PushButtons(old, pushed, locs) == Reachable(old \o pushed, 1, locs)

\* App::render_change_popup
RenderChangePopup(a, width, split, locs) ==
    LET change == GetSelectedChange(a)
    IN  IF ~change.some THEN Panicked(a)
        ELSE LET btns == PopupButtons(change.val.state)
                 n == Len(btns)
                 popup_area == IF a.change_popup_area.some THEN a.change_popup_area.val
                               ELSE CalculatePopupRect(a.mouse_loc, btns, FrameArea(width))
                 pushed == [i \in 1..n |->
                              [rect |-> ButtonArea(split, InnerHorizontal(popup_area), i - 1, n),
                               func |-> btns[i].func]]
             IN  [a EXCEPT !.buttons = PushButtons(@, pushed, locs),
                           !.change_popup_area = Some(popup_area),
                           !.drawn = btns]

\* App::render_file_list
RenderFileList(a, area) ==
    LET n == Len(Renderable(a.file_list))
        rendered == ListRender(a.selected, a.offset, n, area.height - 2)
    IN  [a EXCEPT !.bar_content_length = n,
                  !.selected = rendered.selected,
                  !.offset = rendered.offset,
                  !.changes_area = Some(area)]

\* App::draw on a frame of the given width
DrawFrame(a, width, split, locs) ==
    LET a0 == [a EXCEPT !.drawn = <<>>, !.ran = <<>>, !.handled = None]
    IN  IF width < MINIMUM_UI_WIDTH THEN a0
        ELSE LET should_render_change_popup == a0.state = "ChangePopup"
                 a1 == RenderFileList(a0, ChangesLayoutArea(width))
             IN  IF should_render_change_popup THEN RenderChangePopup(a1, width, split, locs)
                 ELSE a1

(***************************************************************************)
(* What the outside world gives the App.  A run is in one of five worlds,  *)
(* which bound what is drawn from:                                         *)
(*   "click"   the pointer clicks and moves everywhere;                    *)
(*   "wheel"   the pointer selects with the left button and scrolls, and   *)
(*             the terminal changes its width;                             *)
(*   "resize"  the pointer clicks and moves in two places, and the         *)
(*             terminal changes its width;                                 *)
(*   "svn"     svn and zellij answer anything; the pointer clicks on the   *)
(*             first change and on the popup that opens there;             *)
(*   "clock"   the clock runs and svn status fails at times; the pointer   *)
(*             selects the first change;                                   *)
(*   "action"  the pointer opens the popup on every row of the Changes     *)
(*             region and clicks on every button;                          *)
(*   "margin"  the pointer opens the popup, and clicks, in the column      *)
(*             where a popup of two buttons has its left margin.           *)
(* Outside "svn" and "clock", svn and zellij do what they are asked;       *)
(* outside "clock" the clock stands still.                                 *)
(***************************************************************************)
Worlds == {"click", "wheel", "resize", "svn", "clock", "action", "margin", "info"}

\* the widths the terminal takes
Widths(world) == IF world \in {"wheel", "resize"} THEN {14, 15} ELSE {15}

\* the reading the clock runs to, and by how much it moves between events
MaxNow == 7
Delays(world) == IF world = "clock" THEN {0, 1} ELSE {0}

\* the events sent and not yet received that the channel holds at most
MaxQueue == 1

\* the selection index up to which a scroll down is followed
MaxSelected == 4

\* (row, col) places of the pointer: above the Changes region, on its
\* first row, on its bottom border; in column 1, where a popup has room,
\* and in column 4, from where a popup of four buttons is moved left
MouseRows == {2, 5, 8}
MouseCols == {1, 4}
\* the four rows a popup opened on the first change covers, in column 6:
\* every popup opened there is moved left and has its buttons under the
\* pointer
ActionRows == {5, 6, 7, 8}
ActionCols == {6}
MouseLocs(world) ==
    CASE world = "click" -> {<<r, c>> : r \in MouseRows, c \in MouseCols}
      [] world = "wheel" -> {<<r, 1>> : r \in MouseRows}
      [] world = "resize" -> {<<5, 1>>, <<8, 4>>}
      [] world = "svn" -> {<<5, 1>>, <<5, 4>>, <<8, 4>>}
      [] world = "clock" -> {<<5, 1>>}
      [] world = "action" -> {<<r, c>> : r \in ActionRows, c \in ActionCols}
      [] world = "margin" -> {<<5, 5>>, <<7, 5>>}
      [] world = "info" -> {<<5, 1>>}

\* the kinds of mouse event
MouseKinds(world) ==
    CASE world = "click" -> {"Left", "Right", "Middle", "Moved"}
      [] world = "wheel" -> {"Left", "ScrollDown", "ScrollUp"}
      [] world = "resize" -> {"Left", "Right", "Moved"}
      [] world = "svn" -> {"Left", "Right"}
      [] world = "clock" -> {"Left"}
      [] world = "action" -> {"Left", "Right"}
      [] world = "margin" -> {"Left", "Right"}
      [] world = "info" -> {"Left"}

StatusLine(code, name) ==
    <<code>> \o <<" ", " ", " ", " ", " ", " ", " ">> \o name \o <<"\n">>

\* svn status outputs: four changes, one of them a conflict with its three
\* parts; a line shorter than the status code; nothing
MixedText ==
    StatusLine("M", <<"a">>) \o StatusLine("C", PathF) \o StatusLine("?", PathLeft)
    \o StatusLine("?", PathRight) \o StatusLine("?", PathWorking)
    \o StatusLine("?", PathG) \o StatusLine("D", PathH)
ShortText == ShortLine \o <<"\n">>
\* "M       a.txt\nD       b.txt\n"
PathATxt == <<"a", ".", "t", "x", "t">>
PathBTxt == <<"b", ".", "t", "x", "t">>
PairText == StatusLine("M", PathATxt) \o StatusLine("D", PathBTxt)

\* what a command that fails writes to stderr, and the io::Error of one
\* that cannot be started
StdErr == "svn: E155007: not a working copy"
IoError == "No such file or directory (os error 2)"

\* what run_command gives for svn status
StatusRuns(world) ==
    {Ok(CmdResult(TRUE, MixedText, ""))}
    \cup (IF world \in {"action", "margin"} THEN {} ELSE {Ok(CmdResult(TRUE, <<>>, ""))})
    \cup (CASE world = "svn" ->
                  {Ok(CmdResult(TRUE, ShortText, "")), Ok(CmdResult(FALSE, <<>>, StdErr)),
                   Err(ErrorIo(IoError))}
            [] world = "clock" -> {Ok(CmdResult(FALSE, <<>>, StdErr))}
            [] world = "action" -> {Ok(CmdResult(TRUE, PairText, ""))}
            [] OTHER -> {})

\* what run_command gives for svn revert / remove / add / commit and zellij
ActionRuns(world) ==
    {Ok(CmdResult(TRUE, "", ""))}
    \cup (IF world # "svn" THEN {}
          ELSE {Ok(CmdResult(FALSE, "", StdErr)), Err(ErrorIo(IoError))})

\* texts of svn info: with the URL after another line, with a nested URL,
\* without a URL line, with a URL line that has no value, with a URL that
\* ends in "..", and with two URL lines
TrunkInfo == <<"P", "a", "t", "h", ":", " ", ".", "\n", "U", "R", "L", ":", " ", "^", "/", "t", "r", "u", "n", "k", "\n">>
NestedInfo == <<"U", "R", "L", ":", " ", "^", "/", "b", "r", "a", "n", "c", "h", "e", "s", "/", "b", "1", "\n">>
NoUrlInfo == <<"P", "a", "t", "h", ":", " ", ".", "\n">>
BareUrlInfo == <<"U", "R", "L", ":", "\n">>
DotDotInfo == <<"U", "R", "L", ":", " ", "^", "/", ".", ".", "\n">>
TwoUrlInfo == <<"U", "R", "L", ":", " ", "^", "/", "b", "1", "\n", "U", "R", "L", ":", " ", "^", "/", "b", "2", "\n">>

\* what run_command gives for svn info
InfoRuns(world) ==
    {Ok(CmdResult(TRUE, TrunkInfo, ""))}
    \cup (CASE world = "svn" -> {Ok(CmdResult(FALSE, <<>>, StdErr))}
            [] world = "info" ->
                  {Ok(CmdResult(TRUE, NestedInfo, "")), Ok(CmdResult(TRUE, NoUrlInfo, "")),
                   Ok(CmdResult(TRUE, BareUrlInfo, "")), Ok(CmdResult(TRUE, DotDotInfo, "")),
                   Ok(CmdResult(TRUE, TwoUrlInfo, "")),
                   Ok(CmdResult(FALSE, <<>>, StdErr)), Err(ErrorIo(IoError))}
            [] OTHER -> {})

Keys == {"Esc", "q", "Ctrl-c", "r", "x"}
(***************************************************************************)
(* App::run: the prologue, then draw and handle_events in turn while       *)
(* running.  handle_events takes the next event of the channel: an event   *)
(* the App sent itself, oldest first, or one the terminal or the timer     *)
(* produced meanwhile.  Keys and mouse events reach a terminal that has    *)
(* the focus; focus is lost and gained in turn.                            *)
(***************************************************************************)
InitApp ==
    /\ text = <<>>
    /\ list = <<>>
    /\ call = "none"
    /\ arg = 0
    /\ ret = None
    /\ app = NewApp
    /\ env \in {e \in [world : Worlds, width : {14, 15}, now : {0}, split : Splits,
                        opened_at : {None}, info : {None}] :
                  e.width \in Widths(e.world)}

\* the events handle_events takes from the channel
TickEvent == [type |-> "Tick"]
KeyEvent(key) == [type |-> "Key", key |-> key]
MouseEventAt(kind, loc) == [type |-> "Mouse", kind |-> kind, loc |-> loc]
FocusLostEvent == [type |-> "FocusLost"]
FocusGainedEvent == [type |-> "FocusGained"]
ResizeEvent == [type |-> "Resize"]

\* where run goes after the handler of event returned a
AfterEvent(event, a) ==
    IF a.pc = "panicked" THEN [a EXCEPT !.handled = Some(event)]
    ELSE [a EXCEPT !.handled = Some(event),
                   !.pc = IF a.running THEN "draw" ELSE "done"]

\* an event of the terminal or the timer can be the next one
Produced == app.pc = "events" /\ Len(app.events) < MaxQueue

\* run up to the loop: get_branch_name, get_svn_status
Startup ==
    /\ app.pc = "start"
    /\ \E info \in InfoRuns(env.world), status \in StatusRuns(env.world) :
          LET a1 == Run(app, "svn", <<"info">>, <<Cwd>>, Outcome(info))
              a2 == Run(a1, "svn", <<"status">>, <<Cwd>>, Outcome(status))
              branch == GetBranchName(info)
              got == GetSvnStatus(status)
          IN  /\ app' = CASE branch.kind # "Ok" -> Panicked(a1)
                          [] got.kind = "Panic" -> Panicked(a2)
                          [] got.kind = "Ok" ->
                                [a2 EXCEPT !.current_branch = branch.val,
                                           !.file_list = got.val,
                                           !.pc = "draw"]
                          [] OTHER ->
                                [a2 EXCEPT !.current_branch = branch.val, !.pc = "draw"]
              /\ env' = [env EXCEPT !.info = Some(info)]
    /\ UNCHANGED <<text, list, call, arg, ret>>

\* terminal.draw(|frame| self.draw(frame))
Draw ==
    /\ app.pc = "draw"
    /\ LET a1 == DrawFrame(app, env.width, env.split, MouseLocs(env.world))
       IN  app' = IF a1.pc = "panicked" THEN a1 ELSE [a1 EXCEPT !.pc = "events"]
    /\ UNCHANGED <<text, list, call, arg, ret, env>>

\* Event::Tick
Tick ==
    /\ Produced
    /\ \E dt \in Delays(env.world) :
          /\ env.now + dt <= MaxNow
          /\ env' = [env EXCEPT !.now = @ + dt]
          /\ app' = AfterEvent(TickEvent, TickHandler(app, env.now + dt))
    /\ UNCHANGED <<text, list, call, arg, ret>>

\* CtEvent::Key
KeyPressed ==
    /\ Produced /\ app.has_focus
    /\ \E key \in Keys : app' = AfterEvent(KeyEvent(key), HandleKeyEvent(app, key))
    /\ UNCHANGED <<text, list, call, arg, ret, env>>

\* what the commands a mouse event makes the App run answer: the command of
\* the button under the pointer and, when that is an svn command that
\* succeeds, the svn status after it; None for a command that is not run
MouseAnswers(a, kind, loc, world) ==
    LET a1 == [a EXCEPT !.mouse_loc = loc]
        func == LastButtonAt(a1.buttons, Position(loc), 1, None)
        Refreshes(run) ==
            run.kind = "Ok" /\ run.val.success /\ func.val # "open_change_file"
    IN  IF /\ kind \in {"Left", "Right", "Middle"}
           /\ CurrentMouseSection(a1) = Some("ChangePopup")
           /\ func.some
           /\ GetSelectedChanges(a1).some
        THEN UNION {{<<run, status>> :
                        status \in IF Refreshes(run) THEN StatusRuns(world) ELSE {None}} :
                    run \in ActionRuns(world)}
        ELSE {<<None, None>>}

\* a press of a mouse button at loc opens the popup
OpensPopup(a, kind, loc) ==
    LET a1 == [a EXCEPT !.mouse_loc = loc]
    IN  /\ kind = "Right"
        /\ CurrentMouseSection(a1) = Some("Changes")
        /\ ClickIndex(a1) <= Len(Renderable(a1.file_list))

\* CtEvent::Mouse; env.opened_at keeps the place of the pointer at the
\* click that opened the popup, while it is open
MouseEvent ==
    /\ Produced /\ app.has_focus
    /\ \E kind \in MouseKinds(env.world), loc \in MouseLocs(env.world) :
          /\ kind = "ScrollDown" /\ app.selected.some => app.selected.val < MaxSelected
          /\ \E answer \in MouseAnswers(app, kind, loc, env.world) :
                LET after == HandleMouseEvent(app, kind, loc, answer[1], answer[2],
                                              env.now)
                IN  /\ app' = AfterEvent(MouseEventAt(kind, loc), after)
                    /\ env' = [env EXCEPT !.opened_at =
                                  IF OpensPopup(app, kind, loc) THEN Some(loc)
                                  ELSE IF after.state = "Main" THEN None ELSE @]
    /\ UNCHANGED <<text, list, call, arg, ret>>

\* CtEvent::FocusLost
FocusLost ==
    /\ Produced /\ app.has_focus
    /\ app' = AfterEvent(FocusLostEvent, FocusLostHandler(app))
    /\ UNCHANGED <<text, list, call, arg, ret, env>>

\* CtEvent::FocusGained
FocusGained ==
    /\ Produced /\ ~app.has_focus
    /\ \E info \in InfoRuns(env.world), status \in StatusRuns(env.world) :
          /\ app' = AfterEvent(FocusGainedEvent, FocusGainedHandler(app, info, status, env.now))
          /\ env' = [env EXCEPT !.info = Some(info)]
    /\ UNCHANGED <<text, list, call, arg, ret>>

\* CtEvent::Resize: the arm that does nothing; the next frame has the new width
Resize ==
    /\ Produced
    /\ \E width \in Widths(env.world) \ {env.width} : env' = [env EXCEPT !.width = width]
    /\ app' = AfterEvent(ResizeEvent, app)
    /\ UNCHANGED <<text, list, call, arg, ret>>

\* the App event at the head of the channel
NextAppEvent == app.events[1]
Received == [app EXCEPT !.events = Tail(@)]

\* AppEvent::Quit
QuitReceived ==
    /\ app.pc = "events" /\ app.events # <<>> /\ NextAppEvent.type = "Quit"
    /\ app' = AfterEvent(NextAppEvent, Quit(Received))
    /\ UNCHANGED <<text, list, call, arg, ret, env>>

\* AppEvent::UpdateRequest
UpdateRequestReceived ==
    /\ app.pc = "events" /\ app.events # <<>> /\ NextAppEvent.type = "UpdateRequest"
    /\ \E info \in InfoRuns(env.world), status \in StatusRuns(env.world) :
          /\ app' = AfterEvent(NextAppEvent, UpdateRequestHandler(Received, info, status, env.now))
          /\ env' = [env EXCEPT !.info = Some(info)]
    /\ UNCHANGED <<text, list, call, arg, ret>>

\* AppEvent::Message
MessageReceived ==
    /\ app.pc = "events" /\ app.events # <<>> /\ NextAppEvent.type = "Message"
    /\ app' = AfterEvent(NextAppEvent, [Received EXCEPT !.last_message = NextAppEvent.msg])
    /\ UNCHANGED <<text, list, call, arg, ret, env>>

Next ==
    \/ Startup
    \/ Draw
    \/ Tick
    \/ KeyPressed
    \/ MouseEvent
    \/ FocusLost
    \/ FocusGained
    \/ Resize
    \/ QuitReceived
    \/ UpdateRequestReceived
    \/ MessageReceived

Spec == InitApp /\ [][Next]_vars

(***************************************************************************)
(* handle_scroll as a function of its arguments: a direction, an offset    *)
(* and a scrollbar state.                                                  *)
(***************************************************************************)
Directions == {"Up", "Down"}

\* the largest content length and position of the scrollbar states tried
MaxBar == 3

InitScroll ==
    /\ text = <<>>
    /\ list = <<>>
    /\ call = "none"
    /\ arg \in [dir : Directions, offset : 0..UsizeMax,
                bar_state : {ScrollbarState(c, p) : c \in 0..MaxBar, p \in 0..MaxBar}]
    /\ ret = None
    /\ app = None
    /\ env = None

CallHandleScroll ==
    /\ call = "none"
    /\ call' = "handle_scroll"
    /\ ret' = HandleScroll(arg.dir, arg.offset, arg.bar_state)
    /\ UNCHANGED <<text, list, arg, app, env>>

NextScroll == CallHandleScroll

SpecScroll == InitScroll /\ [][NextScroll]_vars

(***************************************************************************)
(* Properties of the App.                                                  *)
(***************************************************************************)
\* the event a step handled, when it handled one
Handles(type) == app'.handled.some /\ app'.handled.val.type = type

\* a step that handled a press of one of the buttons at the place loc of
\* the pointer, the pointer being in the given section when it arrived
Clicks(kinds, section) ==
    /\ Handles("Mouse")
    /\ app'.handled.val.kind \in kinds
    /\ CurrentMouseSection([app EXCEPT !.mouse_loc = app'.handled.val.loc]) = section

\* C12: update_svn_status never panics: whatever svn status printed, a kept
\* line shorter than 8 characters included, it either replaces the file
\* list with the parsed text or leaves it and enqueues a Message.
C12_RefreshNeverPanics ==
    [][ (Handles("UpdateRequest") \/ Handles("FocusGained")) =>
            LET before == IF Handles("UpdateRequest") THEN Tail(app.events)
                          ELSE app.events
            IN  /\ app'.pc # "panicked"
                /\ \/ /\ app'.events = before
                      /\ \E run \in StatusRuns(env.world) :
                            GetSvnStatus(run) = Ok(app'.file_list)
                   \/ /\ app'.file_list = app.file_list
                      /\ Len(app'.events) = Len(before) + 1
                      /\ app'.events[Len(app'.events)].type = "Message" ]_vars

\* C14: current_mouse_section is ChangePopup when the popup rectangle is
\* set and contains the pointer, else Changes when the Changes rectangle is
\* set and contains it, else None.
C14_PopupAboveChanges ==
    app.pc # "start" =>
        LET row == app.mouse_loc[1]
            col == app.mouse_loc[2]
            Holds(area) ==
                /\ area.some
                /\ area.val.x <= col /\ col < area.val.x + area.val.width
                /\ area.val.y <= row /\ row < area.val.y + area.val.height
        IN  CurrentMouseSection(app) =
                IF Holds(app.change_popup_area) THEN Some("ChangePopup")
                ELSE IF Holds(app.changes_area) THEN Some("Changes")
                ELSE None

\* the pointer is in the popup and in the Changes region at once
C14_Witness ==
    /\ "pc" \in DOMAIN app
    /\ app.change_popup_area.some /\ app.changes_area.some
    /\ Contains(app.change_popup_area.val, Position(app.mouse_loc))
    /\ Contains(app.changes_area.val, Position(app.mouse_loc))

\* C15: a left click on row r of the Changes region (top row y0, list offset
\* o) selects index max((r - y0) + o - 1, 0) when that index does not
\* exceed the number of renderable entries and clears the selection
\* otherwise; after it the state is Main, the popup rectangle is None, and
\* get_selected_changes returns the renderable entry at the selected index.
C15_LeftClickSelects ==
    [][ Clicks({"Left"}, Some("Changes")) =>
            LET r == app'.handled.val.loc[1]
                y0 == app.changes_area.val.y
                index == Max((r - y0) + app.offset - 1, 0)
                items == Renderable(app.file_list)
            IN  /\ app'.selected = IF index <= Len(items) THEN Some(index) ELSE None
                /\ app'.state = "Main"
                /\ app'.change_popup_area = None
                /\ index <= Len(items) =>
                      /\ index < Len(items)
                      /\ GetSelectedChanges(app') = Some(<<items[index + 1]>>) ]_vars

\* C16: a press of any mouse button while the pointer is in neither the
\* popup rectangle nor the Changes rectangle clears the selection, sets the
\* state to Main and clears the popup rectangle.
C16_ClickOutside ==
    [][ Clicks({"Left", "Right", "Middle"}, None) =>
            /\ app'.selected = None
            /\ app'.state = "Main"
            /\ app'.change_popup_area = None ]_vars

\* a button was pressed above the Changes region, and the App is as C16 says
C16_Witness ==
    /\ "pc" \in DOMAIN app
    /\ app.handled.some /\ app.handled.val.type = "Mouse"
    /\ app.handled.val.kind \in {"Left", "Right", "Middle"}
    /\ app.changes_area.some
    /\ app.handled.val.loc[1] < app.changes_area.val.y
    /\ app.selected = None /\ app.state = "Main" /\ app.change_popup_area = None

\* C17: whenever the state is Main, the popup rectangle is None.
C17_MainHasNoPopupArea ==
    "pc" \in DOMAIN app =>
        (app.state = "Main" => app.change_popup_area = None)

\* C18: while the popup is open its rectangle is the one computed from the
\* place of the pointer at the click that opened it: a step leaves a
\* rectangle that is set as it is, and a step that sets one computes it
\* from that place.
C18_RectFixedAtOpening ==
    [][ (app'.state = "ChangePopup" /\ app'.change_popup_area.some) =>
            IF app.change_popup_area.some
            THEN app'.change_popup_area = app.change_popup_area
            ELSE /\ env.opened_at.some
                 /\ app'.change_popup_area.val =
                        CalculatePopupRect(env.opened_at.val, app'.drawn,
                                           FrameArea(env.width)) ]_vars

\* C19: the rectangle the popup gets when it opens lies inside the frame:
\* its right edge is not beyond the right edge of the frame and its bottom
\* edge is not beyond the bottom edge.
C19_PopupInsideFrame ==
    [][ (~app.change_popup_area.some /\ app'.change_popup_area.some) =>
            LET rect == app'.change_popup_area.val
            IN  /\ rect.x + rect.width <= env.width
                /\ rect.y + rect.height <= FrameHeight ]_vars

\* the action each label stands for
ActionOf(label) ==
    CASE label = "Open" -> "open_change_file"
      [] label = "Delete" -> "delete_change_file"
      [] label = "Revert" -> "revert_change_file"
      [] label = "Commit" -> "commit_change_file"
      [] label = "Add" -> "add_change_file"

\* the buttons are Open, and Delete, Revert, Commit, Add exactly for the
\* states the capability table gives, each once and with its own action
OffersByTable(buttons, st) ==
    LET labels == {buttons[i].label : i \in 1..Len(buttons)}
    IN  /\ Cardinality(labels) = Len(buttons)
        /\ labels \subseteq {"Open", "Delete", "Revert", "Commit", "Add"}
        /\ "Open" \in labels
        /\ "Delete" \in labels <=> st \in {"Modified", "Missing", "Conflicting"}
        /\ "Revert" \in labels <=>
              st \in {"Modified", "Added", "Deleted", "Conflicting", "Missing"}
        /\ "Commit" \in labels <=> st \in {"Modified", "Added", "Deleted"}
        /\ "Add" \in labels <=> st = "Unversioned"
        /\ \A i \in 1..Len(buttons) : buttons[i].func = ActionOf(buttons[i].label)

\* C20: the buttons of the popup are Open plus Delete, Revert, Commit and
\* Add exactly when the selected entry is deletable, revertable, commitable
\* and addable, each bound to the action of its name: for the entry a frame
\* shows the popup for, and for an entry in any state.
C20_ButtonsByCapability ==
    /\ \A st \in States : OffersByTable(PopupButtons(st), st)
    /\ ("pc" \in DOMAIN app /\ app.pc = "events" /\ app.drawn # <<>>) =>
          OffersByTable(app.drawn, GetSelectedChange(app).val.state)

\* a frame shows the popup for an Unversioned entry, and one for a Deleted
\* entry was shown with three buttons
C20_Witness ==
    /\ "pc" \in DOMAIN app
    /\ app.pc = "events" /\ app.drawn # <<>>
    /\ GetSelectedChange(app).val.state \in {"Unversioned", "Deleted"}

\* the buttons of a mouse
MouseButtons == {"Left", "Right", "Middle"}

\* the labels of a sequence of buttons
Labels(buttons) == {buttons[i].label : i \in 1..Len(buttons)}

\* the command an action runs on a path
CommandOfAction(func, path) ==
    CASE func = "open_change_file" -> [program |-> "zellij", args |-> ZellijArgs, paths |-> <<path>>]
      [] func = "add_change_file" -> [program |-> "svn", args |-> <<"add">>, paths |-> <<path>>]
      [] func = "delete_change_file" -> [program |-> "svn", args |-> <<"remove">>, paths |-> <<path>>]
      [] func = "revert_change_file" -> [program |-> "svn", args |-> <<"revert">>, paths |-> <<path>>]
      [] func = "commit_change_file" -> [program |-> "svn", args |-> <<"commit">>, paths |-> <<path>>]

\* the command cmd is the one the action func runs on path
RunsAction(cmd, func, path) ==
    [program |-> cmd.program, args |-> cmd.args, paths |-> cmd.paths]
        = CommandOfAction(func, path)

\* cmd is the command of Add, Delete, Revert or Commit
IsSvnAction(cmd) ==
    cmd.program = "svn" /\ cmd.args \in {<<"add">>, <<"remove">>, <<"revert">>, <<"commit">>}

\* cmd is svn status
IsSvnStatus(cmd) == cmd.program = "svn" /\ cmd.args = <<"status">>

\* the buttons of the frame shown when a click arrives that contain pos:
\* their places in app.drawn
FrameButtonsAt(pos) ==
    IF app.drawn = <<>> \/ ~app.change_popup_area.some THEN {}
    ELSE {i \in 1..Len(app.drawn) :
            Contains(ButtonArea(env.split, InnerHorizontal(app.change_popup_area.val),
                                i - 1, Len(app.drawn)),
                     pos)}

\* C21: a click in the popup runs an action only if a button of the most
\* recent frame contains the pointer, and then the action of that button;
\* the action run is one the popup offers for the state of the selected
\* entry.
C21_OnlyButtonsOfLastFrame ==
    [][ Clicks(MouseButtons, Some("ChangePopup")) =>
            LET hit == FrameButtonsAt(Position(app'.handled.val.loc))
                change == GetSelectedChange(app)
            IN  /\ hit = {} => app'.ran = <<>>
                /\ \A i \in hit :
                      change.some =>
                          /\ app'.ran # <<>>
                          /\ RunsAction(app'.ran[1], app.drawn[i].func, change.val.path)
                /\ app'.ran # <<>> =>
                      /\ change.some
                      /\ \E b \in {PopupButtons(change.val.state)[i] :
                                     i \in 1..Len(PopupButtons(change.val.state))} :
                            RunsAction(app'.ran[1], b.func, change.val.path) ]_vars

\* a frame shows the popup for an entry in state Deleted
ShowsPopupForDeleted ==
    /\ "pc" \in DOMAIN app
    /\ app.pc = "events" /\ app.drawn # <<>>
    /\ GetSelectedChange(app).val.state = "Deleted"

\* C22 as stated: for a selected entry in state Deleted the popup offers
\* both Revert and Delete.
C22_DeletedOffersRevertAndDelete ==
    ShowsPopupForDeleted => {"Revert", "Delete"} \subseteq Labels(app.drawn)

\* C22 amended: for a selected entry in state Deleted (b.txt in the status
\* text M a.txt / D b.txt) the popup offers Revert and does not offer Delete.
C22_DeletedOffersRevertNotDelete ==
    ShowsPopupForDeleted =>
        /\ "Revert" \in Labels(app.drawn)
        /\ "Delete" \notin Labels(app.drawn)

\* the popup is shown for b.txt of the status text M a.txt / D b.txt
C22_Witness ==
    /\ ShowsPopupForDeleted
    /\ app.file_list = ParseSvnStatus(PairText).val
    /\ GetSelectedChange(app).val.path = PathBTxt

\* C23: when the Add, Delete, Revert or Commit a click in the popup runs
\* fails (svn reports failure, or cannot be started), the message of the
\* tool is enqueued as a Message, svn status is not run, and the state is
\* still ChangePopup with the same selected index and popup rectangle.
C23_FailureLeavesPopup ==
    [][ ( /\ Clicks(MouseButtons, Some("ChangePopup"))
          /\ app'.ran # <<>>
          /\ IsSvnAction(app'.ran[1])
          /\ app'.ran[1].outcome # "success" ) =>
            /\ app'.events =
                  Append(app.events,
                         AppMessage(IF app'.ran[1].outcome = "failure" THEN StdErr
                                    ELSE IoError))
            /\ Len(app'.ran) = 1
            /\ app'.state = "ChangePopup"
            /\ app'.selected = app.selected
            /\ app'.change_popup_area = app.change_popup_area ]_vars

\* the file lists a successful svn status can give
FetchedLists(world) ==
    {GetSvnStatus(run).val : run \in {r \in StatusRuns(world) : GetSvnStatus(r).kind = "Ok"}}

\* C24: when the Add, Delete, Revert or Commit of a click succeeds, svn
\* status is run within the handling of that click, before any queued event
\* is taken, and its list replaces the file list; Open runs no svn status.
C24_SuccessRefreshesAtOnce ==
    [][ (Clicks(MouseButtons, Some("ChangePopup")) /\ app'.ran # <<>>) =>
            IF IsSvnAction(app'.ran[1]) /\ app'.ran[1].outcome = "success"
            THEN /\ Len(app'.ran) = 2
                 /\ IsSvnStatus(app'.ran[2])
                 /\ app'.ran[2].paths = <<Cwd>>
                 /\ (app'.ran[2].outcome = "success" /\ app'.pc # "panicked") =>
                        app'.file_list \in FetchedLists(env.world)
                 /\ SubSeq(app'.events, 1, Len(app.events)) = app.events
            ELSE /\ Len(app'.ran) = 1
                 /\ app'.file_list = app.file_list ]_vars

\* a click ran an svn action that succeeded and the svn status after it
C24_Witness ==
    /\ "pc" \in DOMAIN app
    /\ app.handled.some /\ app.handled.val.type = "Mouse"
    /\ Len(app.ran) = 2
    /\ IsSvnAction(app.ran[1]) /\ app.ran[1].outcome = "success"
    /\ IsSvnStatus(app.ran[2])

\* C25: the action a click calls runs its fixed command, svn add for Add,
\* svn remove for Delete, svn revert for Revert, svn commit for Commit, on
\* the path of the entry at the selected index of the renderable view; with
\* nothing selected, or no renderable entry at the selected index, it runs
\* nothing.
C25_ActionRunsOnRenderableEntry ==
    [][ Clicks(MouseButtons, Some("ChangePopup")) =>
            LET func == LastButtonAt(app.buttons, Position(app'.handled.val.loc), 1, None)
                items == Renderable(app.file_list)
            IN  IF func.some /\ app.selected.some /\ app.selected.val < Len(items)
                THEN /\ app'.ran # <<>>
                     /\ RunsAction(app'.ran[1], func.val,
                                   items[app.selected.val + 1].path)
                ELSE app'.ran = <<>> ]_vars

\* svn add was run on g, the third renderable entry and the sixth of the
\* raw list
C25_Witness ==
    /\ "pc" \in DOMAIN app
    /\ app.handled.some /\ app.handled.val.type = "Mouse"
    /\ app.ran # <<>>
    /\ app.ran[1].args = <<"add">>
    /\ app.ran[1].paths = <<PathG>>

\* C26: handle_scroll(dir, offset, bar) sets the offset to max(offset - 1, 0)
\* for Up and to offset + 1, at most usize::MAX, for Down, and the position
\* of the scrollbar to the new offset, whatever the position and the
\* content length were; content length 3, position 1, offset 2, Up gives
\* offset 1 and position 1.
C26_ScrollMovesOffsetAndBar ==
    /\ call = "handle_scroll" =>
          /\ ret.offset = IF arg.dir = "Up"
                          THEN (IF arg.offset - 1 > 0 THEN arg.offset - 1 ELSE 0)
                          ELSE (IF arg.offset + 1 < UsizeMax THEN arg.offset + 1
                                ELSE UsizeMax)
          /\ ret.bar_state.position = ret.offset
    /\ (call = "handle_scroll"
        /\ arg = [dir |-> "Up", offset |-> 2, bar_state |-> ScrollbarState(3, 1)]) =>
          ret.offset = 1 /\ ret.bar_state.position = 1

\* handle_scroll was called with content length 3, position 1, offset 2, Up
C26_Witness ==
    /\ call = "handle_scroll"
    /\ arg = [dir |-> "Up", offset |-> 2, bar_state |-> ScrollbarState(3, 1)]
    /\ ret.offset = 1

\* C27: in every reachable state the position of the changes scrollbar is
\* the scroll offset of the changes list.
C27_BarMirrorsListOffset ==
    "pc" \in DOMAIN app => app.bar_position = app.offset

\* a step that handled a turn of the mouse wheel
Scrolls == Handles("Mouse") /\ app'.handled.val.kind \in {"ScrollUp", "ScrollDown"}

\* C28: a turn of the wheel with the pointer in the Changes region and a
\* selection Some(s) moves the selected index by one in the direction of
\* the turn, not below 0, leaves the offset of the list as it is and sets
\* the position of the scrollbar to the new selected index; with no
\* selection, or the pointer outside the Changes region, it changes none of
\* them.
C28_WheelMovesSelection ==
    [][ Scrolls =>
            LET up == app'.handled.val.kind = "ScrollUp"
                inChanges ==
                    CurrentMouseSection([app EXCEPT !.mouse_loc = app'.handled.val.loc])
                        = Some("Changes")
            IN  IF inChanges /\ app.selected.some
                THEN LET s == app.selected.val
                         moved == IF up THEN Max(s - 1, 0) ELSE s + 1
                     IN  /\ app'.selected = Some(moved)
                         /\ app'.offset = app.offset
                         /\ app'.bar_position = moved
                ELSE /\ app'.selected = app.selected
                     /\ app'.offset = app.offset
                     /\ app'.bar_position = app.bar_position
                     /\ app'.bar_content_length = app.bar_content_length
                     /\ app'.state = app.state
                     /\ app'.file_list = app.file_list ]_vars

\* the wheel was turned down over the Changes region and moved the
\* selection to the third entry, the list not having scrolled
C28_Witness ==
    /\ "pc" \in DOMAIN app
    /\ app.handled.some /\ app.handled.val.type = "Mouse"
    /\ app.handled.val.kind = "ScrollDown"
    /\ app.selected = Some(2)
    /\ app.bar_position = 2
    /\ app.offset = 0

\* C29: a Tick enqueues an UpdateRequest exactly when the whole seconds
\* since last_updated are more than the timeout, which is 2 seconds; at 2
\* seconds it enqueues nothing.
C29_TickRequestsAfterTimeout ==
    /\ SvnStatusTimeout = 2
    /\ [][ Handles("Tick") =>
              LET elapsed == (env'.now - app.last_updated) \div TicksPerSecond
              IN  app'.events = IF elapsed > 2 THEN Append(app.events, AppUpdateRequest)
                                ELSE app.events ]_vars

\* a Tick came two and a half seconds after last_updated and enqueued nothing
C29_Witness ==
    /\ "pc" \in DOMAIN app
    /\ app.handled = Some(TickEvent)
    /\ env.now - app.last_updated = 2 * TicksPerSecond + 1
    /\ app.events = <<>>

\* C30: last_updated is the time of the last status fetch that succeeded: a
\* step changes it only if it ran an svn status that succeeded, and a step
\* whose svn status failed leaves it as it was.
C30_LastUpdatedOnlyOnSuccess ==
    [][ /\ app'.last_updated # app.last_updated =>
              \E i \in 1..Len(app'.ran) :
                  IsSvnStatus(app'.ran[i]) /\ app'.ran[i].outcome = "success"
        /\ ( /\ app'.ran # <<>>
             /\ IsSvnStatus(app'.ran[Len(app'.ran)])
             /\ app'.ran[Len(app'.ran)].outcome # "success" ) =>
              app'.last_updated = app.last_updated ]_vars

(***************************************************************************)
(* Startup, refresh, branch name, and the end of the session.              *)
(***************************************************************************)
\* the last command a step ran
LastRan == app'.ran[Len(app'.ran)]

\* a step that handled a refresh: UpdateRequest or FocusGained
Refreshes == Handles("UpdateRequest") \/ Handles("FocusGained")

\* C31: when the svn info or the svn status of startup does not succeed, run
\* ends before the loop is entered, and nothing after startup ends the
\* session by a failure.
C31_StartupFailuresAbort ==
    [][ /\ ( /\ app.pc = "start"
             /\ \E i \in 1..Len(app'.ran) : app'.ran[i].outcome # "success" ) =>
              app'.pc = "panicked"
        /\ app'.pc = "panicked" => app.pc = "start" ]_vars

UrlLines(svn_info) == SelectSeq(StrLines(svn_info), LAMBDA line : StrStartsWith(line, UrlColon))

\* the last of the pieces of the value of a URL line that "/" separates
FinalComponent(line) ==
    LET pieces == SplitSlash(SubSeq(line, 6, Len(line)))
    IN  pieces[Len(pieces)]

\* C33: after startup, the svn info of a refresh does not end the session;
\* current_branch becomes the final path component of the value of the
\* first URL: line when svn info succeeds, the text of BranchParseFailure
\* when it has no such line, and stderr when svn info reports failure.
C33_BranchNameOrError ==
    [][ (Refreshes /\ env'.info.val.kind = "Ok") =>
            LET res == env'.info.val.val
            IN  /\ ~(app'.pc = "panicked" /\ Len(app'.ran) = 1)
                /\ app'.current_branch =
                      IF ~res.success THEN res.stderr
                      ELSE IF UrlLines(res.stdout) = <<>>
                           THEN ErrorToString(ErrorBranchParseFailure)
                           ELSE FinalComponent(UrlLines(res.stdout)[1]) ]_vars

\* C34: a frame drawn in state ChangePopup does not panic, and after it
\* selected is Some(i) with i below the length of the renderable list.
C34_PopupFrameHasSelection ==
    [][ (app.pc = "draw" /\ app.state = "ChangePopup" /\ env.width >= MINIMUM_UI_WIDTH) =>
            /\ app'.pc # "panicked"
            /\ app'.selected.some
            /\ app'.selected.val < Len(Renderable(app'.file_list)) ]_vars

\* C35: a mouse event handled in state Main runs no command.
C35_NoActionInMain ==
    [][ (app.state = "Main" /\ Handles("Mouse")) => app'.ran = <<>> ]_vars

\* the channel as the handler of the step found it: without the event the
\* step received from it
QueueBefore == IF Handles("UpdateRequest") THEN Tail(app.events) ELSE app.events

\* C36: after startup, an svn status that fails leaves the file list as it
\* was and enqueues one Message with the text of the error; one that
\* succeeds replaces the list and enqueues nothing.
C36_FailedFetchKeepsList ==
    [][ (app.pc # "start" /\ app'.ran # <<>> /\ IsSvnStatus(LastRan)) =>
            IF LastRan.outcome = "success"
            THEN app'.pc # "panicked" =>
                    /\ app'.file_list \in FetchedLists(env.world)
                    /\ app'.events = QueueBefore
            ELSE /\ app'.file_list = app.file_list
                 /\ app'.events =
                       Append(QueueBefore,
                              AppMessage(IF LastRan.outcome = "failure"
                                         THEN StdErr ELSE IoError)) ]_vars

\* an UpdateRequest was handled whose svn status reported failure, with a
\* file list that is not empty
C36_Witness ==
    /\ "pc" \in DOMAIN app
    /\ app.handled = Some(AppUpdateRequest)
    /\ app.ran # <<>>
    /\ IsSvnStatus(app.ran[Len(app.ran)])
    /\ app.ran[Len(app.ran)].outcome = "failure"
    /\ app.file_list # <<>>
    /\ app.events = <<AppMessage(StdErr)>>

\* C37: after conflicts(), every entry renderable() leaves out is the left,
\* right or working of one of the records returned.
C37_HiddenEntriesInConflicts ==
    (call = "conflicts" /\ ret.kind = "Ok") =>
        \A i \in 1..Len(list) :
            IsConflictPart(list[i].path) =>
                \E j \in 1..Len(ret.val) :
                    Some(list[i].path) \in
                        {ret.val[j].left, ret.val[j].right, ret.val[j].working}

\* the Quit events of a channel
Quits(events) == {i \in 1..Len(events) : events[i] = AppQuit}

\* a step that handled a press of one of the keys in the given state
Presses(keys, state) ==
    Handles("Key") /\ app'.handled.val.key \in keys /\ app.state = state

\* C38: Escape in state ChangePopup sets the state to Main and enqueues
\* nothing; a step enqueues Quit exactly when it is Escape in state Main, q
\* or Ctrl-C; the step that handles Quit ends the loop, and no step follows
\* the end of the loop.
C38_EscapeClosesQuitEnds ==
    [][ /\ Presses({"Esc"}, "ChangePopup") =>
              (app'.state = "Main" /\ app'.events = app.events)
        /\ (Cardinality(Quits(app'.events)) > Cardinality(Quits(app.events))) <=>
              ( \/ Presses({"Esc"}, "Main")
                \/ Handles("Key") /\ app'.handled.val.key \in {"q", "Ctrl-c"} )
        /\ Handles("Quit") => (app'.pc = "done" /\ ~app'.running)
        /\ app.pc # "done" ]_vars

\* Escape was handled with the popup open: the state is Main and the
\* channel is empty
C38_Witness ==
    /\ "pc" \in DOMAIN app
    /\ app.handled = Some(KeyEvent("Esc"))
    /\ app.state = "Main"
    /\ app.change_popup_area.some
    /\ app.events = <<>>

====
